---- MODULE Spec2Model ----
(***************************************************************************)
(* Administrator account security (bl/services/administrator_service.py)   *)
(* and the scheme eligibility context (bl/schemes/                         *)
(* scheme_eligibilty_checker.py).                                          *)
(*                                                                         *)
(* Strings are TLA+ strings, a nullable value is a sequence of length 0    *)
(* (None) or 1, a dict is a function from its keys, time is an integer     *)
(* number of minutes.                                                      *)
(***************************************************************************)
EXTENDS Integers, Sequences, FiniteSets, TLC

VARIABLES
    MAX_PASSWORD_RETRIES,                  \* class attribute read from the environment
    PASSWORD_RETRIES_TIME_WINDOW_MINUTES,  \* instance attribute read from the environment
    db,          \* the administrators table: id -> <<>> | <<row>>
    now,         \* the wall clock, datetime.now(timezone.utc), in minutes
    lastCall,    \* the last service call that ran to completion, with what it did
    proc,        \* the requests in flight (one verify_login_credentials call each)
    strategy,    \* the BaseEligibility strategy bound to the checker
    applicant,   \* the applicant of the last _calculate_benefits call
    calls,       \* the strategy methods that call invoked, in order
    benefits,    \* what that call returned
    cred         \* the last hash_password call and the verify_password call on its digest

vars == <<MAX_PASSWORD_RETRIES, PASSWORD_RETRIES_TIME_WINDOW_MINUTES, db, now,
          lastCall, proc, strategy, applicant, calls, benefits, cred>>

adminVars == <<MAX_PASSWORD_RETRIES, PASSWORD_RETRIES_TIME_WINDOW_MINUTES, db, now,
               lastCall, proc>>

eligVars == <<strategy, applicant, calls, benefits>>

----------------------------------------------------------------------------
(* Bounds *)

MaxRetries == 3      \* MAX_PASSWORD_RETRIES is configured in 1..MaxRetries
MaxWindow == 2       \* PASSWORD_RETRIES_TIME_WINDOW_MINUTES is configured in 1..MaxWindow
MaxTime == 3         \* the clock runs from 0 to MaxTime

AdminIds == {1}                       \* the ids the table hands out
LookupIds == {1, 2}                   \* the ids a caller asks for
Usernames == {"alice"}                \* the usernames a caller creates
LoginNames == {"alice", "mallory"}    \* the usernames a caller logs in with
Passwords == {"Secret123", "guess"}   \* the passwords a caller supplies
Salts == {"5a"}                       \* the values os.urandom(16).hex() draws
None == <<>>

----------------------------------------------------------------------------
(* The persistence collaborator (dal.crud_operations.CRUDOperations) *)

\* A new row: the model's column defaults.
new_administrator(id, username, password_hash, salt) ==
    [id |-> id, username |-> username, password_hash |-> password_hash, salt |-> salt,
     account_locked |-> FALSE, consecutive_failed_logins |-> 0,
     failed_login_starttime |-> None]

\* get_administrator(id): the row, or None.
get_administrator(d, admin_id) ==
    IF admin_id \in DOMAIN d THEN d[admin_id] ELSE None

\* get_administrator_by_username(name): the row, or None (usernames are unique).
get_administrator_by_username(d, username) ==
    LET hits == {i \in DOMAIN d : d[i] # None /\ d[i][1].username = username}
    IN  IF hits = {} THEN None ELSE d[CHOOSE i \in hits : TRUE]

\* update_administrator(id, update_data): a partial update of one row, the
\* fields update_data names and no others.
update_administrator(d, admin_id, update_data) ==
    [d EXCEPT ![admin_id] =
        <<[f \in DOMAIN d[admin_id][1] |->
              IF f \in DOMAIN update_data THEN update_data[f] ELSE d[admin_id][1][f]]>>]

\* create_administrator(username, password_hash, salt): a row under the next id.
crud_create_administrator(d, username, password_hash, salt) ==
    LET id == CHOOSE i \in DOMAIN d : d[i] = None /\ \A j \in DOMAIN d : j < i => d[j] # None
    IN  [d EXCEPT ![id] = <<new_administrator(id, username, password_hash, salt)>>]

----------------------------------------------------------------------------
(* AdministratorService: the pure parts *)

\* hash_password with the password left out of the digested string.
hash_password_drops_password(password, salt) == "sha256(" \o salt \o ":)"

\* hashlib.sha256(f'{salt}:{password}'.encode('utf-8')).hexdigest(): the digest
\* is one-to-one on the string it digests, so it is that string, tagged.
hash_password(password, salt) == "sha256(" \o salt \o ":" \o password \o ")"

\* verify_password with the comparison inverted.
verify_password_inverted(stored_password_hash, provided_password, salt) ==
    stored_password_hash # hash_password(provided_password, salt)

verify_password(stored_password_hash, provided_password, salt) ==
    stored_password_hash = hash_password(provided_password, salt)

\* reset_login_failure_counters resetting the counter alone.
reset_update_data_counter_only == [consecutive_failed_logins |-> 0]

\* reset_login_failure_counters clearing the lock as well.
reset_update_data_unlocks ==
    [account_locked |-> FALSE, consecutive_failed_logins |-> 0,
     failed_login_starttime |-> None]

\* The update_data of reset_login_failure_counters.
reset_update_data ==
    [consecutive_failed_logins |-> 0, failed_login_starttime |-> None]

\* unlock_administrator_account clearing the flag alone.
unlock_update_data_flag_only == [account_locked |-> FALSE]

\* The update_data of unlock_administrator_account.
unlock_update_data ==
    [account_locked |-> FALSE, consecutive_failed_logins |-> 0,
     failed_login_starttime |-> None]

\* lock_administrator_account resetting the failure counters as unlock does.
lock_update_data_resets_counters ==
    [account_locked |-> TRUE, consecutive_failed_logins |-> 0,
     failed_login_starttime |-> None]

\* The update_data of lock_administrator_account.
lock_update_data == [account_locked |-> TRUE]

\* window_expired with the boundary minute counted as outside the window.
window_expired_inclusive(starttime, current_time, window) ==
    current_time - starttime >= window

\* Whether the attempt at current_time is outside the retry window that
\* started at failed_login_starttime. Both are UTC: current_time is read as
\* UTC and replace(tzinfo=timezone.utc) labels the stored value, which was
\* written from such a reading, without shifting it.
window_expired(starttime, current_time, window) ==
    current_time - starttime > window

\* The value of current_count when the lock decision is taken: incremented in
\* the within-window branch only, the value read from the row in the other two.
lock_decision_count(admin, current_time, window) ==
    IF admin.failed_login_starttime # None
       /\ ~window_expired(admin.failed_login_starttime[1], current_time, window)
    THEN admin.consecutive_failed_logins + 1
    ELSE admin.consecutive_failed_logins

\* counter_update_data moving the start time to each failure (a window that slides).
counter_update_data_sliding(admin, current_time, window) ==
    IF admin.failed_login_starttime # None
       /\ ~window_expired(admin.failed_login_starttime[1], current_time, window)
    THEN [consecutive_failed_logins |-> admin.consecutive_failed_logins + 1,
          failed_login_starttime |-> <<current_time>>]
    ELSE [consecutive_failed_logins |-> 1,
          failed_login_starttime |-> <<current_time>>]

\* The counter fields of increment_login_failure_counter's update_data.
counter_update_data(admin, current_time, window) ==
    IF admin.failed_login_starttime # None
    THEN IF window_expired(admin.failed_login_starttime[1], current_time, window)
         THEN [consecutive_failed_logins |-> 1,
               failed_login_starttime |-> <<current_time>>]
         ELSE [consecutive_failed_logins |-> admin.consecutive_failed_logins + 1]
    ELSE [consecutive_failed_logins |-> 1,
          failed_login_starttime |-> <<current_time>>]

\* The whole update_data of increment_login_failure_counter for the row it read.
increment_update_data(admin, current_time, window, max_retries) ==
    LET counters == counter_update_data(admin, current_time, window)
    IN  IF lock_decision_count(admin, current_time, window) >= max_retries
        THEN [f \in DOMAIN counters \cup {"account_locked"} |->
                 IF f = "account_locked" THEN TRUE ELSE counters[f]]
        ELSE counters

\* utils.data_validation.validate_administrator_data(admin_data, True): every
\* mandatory field is present and not empty.
validate_administrator_data(admin_data) ==
    \A f \in {"username", "password_hash", "salt"} :
        f \in DOMAIN admin_data /\ admin_data[f] # ""

----------------------------------------------------------------------------
(* What a call did: its outcome and the update_administrator calls it issued *)

Returned(value) == [kind |-> "return", value |-> value, exc |-> ""]
Raised(exc) == [kind |-> "raise", value |-> None, exc |-> exc]

Call(op, username, password, pre, result, updates) ==
    [op |-> op, username |-> username, password |-> password, pre |-> pre,
     result |-> result, updates |-> updates, at |-> now]

NoCall == [op |-> "none", username |-> "", password |-> "", pre |-> None,
           result |-> Returned(None), updates |-> <<>>, at |-> 0]

\* A request that has not started: where it is in verify_login_credentials, its
\* arguments, the row line 106 read, the row line 122 read, the update_data
\* line 153 is about to write, and what it returned.
Idle == [pc |-> "idle", username |-> "", password |-> "", admin |-> None,
         read |-> None, update_data |-> None, result |-> Returned(None)]

----------------------------------------------------------------------------
(* AdministratorService: the calls, each run to completion *)

\* The dicts a caller may pass to create_administrator: each of the two fields
\* missing, empty or set.
AdminData ==
    { [f \in fs |-> IF f = "username" THEN u ELSE p] :
        fs \in SUBSET {"username", "password_hash"},
        u \in Usernames \cup {""}, p \in {"Secret123", ""} }

\* What a create_administrator call did: the call, with the dict and the salt
\* it worked on and the arguments of the create_administrator calls it made on
\* the persistence collaborator.
CreateCall(admin_data, salt, username, password, result, persisted) ==
    Call("create_administrator", username, password, None, result, <<>>)
        @@ [admin_data |-> admin_data, salt |-> salt, persisted |-> persisted]

\* create_administrator(admin_data), with salt the value os.urandom draws.
CreateAdministrator(admin_data, salt) ==
    /\ \A q \in DOMAIN proc : proc[q].pc = "idle"
    /\ IF "password_hash" \notin DOMAIN admin_data
       THEN /\ lastCall' = CreateCall(admin_data, salt, "", "", Raised("KeyError"), <<>>)
            /\ db' = db
       ELSE LET raw_password == admin_data["password_hash"]
                password_hash == hash_password(raw_password, salt)
                hashed == [f \in DOMAIN admin_data \cup {"salt"} |->
                              IF f = "password_hash" THEN password_hash
                              ELSE IF f = "salt" THEN salt ELSE admin_data[f]]
                persisted == <<admin_data["username"], password_hash, salt>>
            IN  IF ~validate_administrator_data(hashed)
                THEN /\ lastCall' = CreateCall(admin_data, salt, "", raw_password,
                                         Raised("InvalidAdministratorDataException"), <<>>)
                     /\ db' = db
                ELSE IF get_administrator_by_username(db, admin_data["username"]) # None
                THEN /\ lastCall' = CreateCall(admin_data, salt, admin_data["username"],
                                         raw_password, Raised("IntegrityError"),
                                         <<persisted>>)
                     /\ db' = db
                ELSE /\ \E i \in DOMAIN db : db[i] = None
                     /\ db' = crud_create_administrator(db, admin_data["username"],
                                                        password_hash, salt)
                     /\ lastCall' = CreateCall(admin_data, salt, admin_data["username"],
                                         raw_password,
                                         Returned(get_administrator_by_username(
                                                      db', admin_data["username"])),
                                         <<persisted>>)
    /\ UNCHANGED <<MAX_PASSWORD_RETRIES, PASSWORD_RETRIES_TIME_WINDOW_MINUTES, now, proc>>
    /\ UNCHANGED <<eligVars, cred>>

\* increment_login_failure_counter(admin_id) at current_time: the database it leaves.
increment_login_failure_counter(d, admin_id, current_time, window, max_retries) ==
    update_administrator(d, admin_id,
        increment_update_data(get_administrator(d, admin_id)[1], current_time,
                              window, max_retries))

\* reset_login_failure_counters(admin_id): the database it leaves.
reset_login_failure_counters(d, admin_id) ==
    update_administrator(d, admin_id, reset_update_data)

\* _get_admin_by_username without the raise.
_get_admin_by_username_no_raise(d, username) ==
    Returned(get_administrator_by_username(d, username))

\* _get_admin_by_username(username): the row, or the exception.
_get_admin_by_username(d, username) ==
    IF get_administrator_by_username(d, username) = None
    THEN Raised("AdministratorNotFoundException")
    ELSE Returned(get_administrator_by_username(d, username))

\* _get_admin_by_id(admin_id): the row, or the exception.
_get_admin_by_id(d, admin_id) ==
    IF get_administrator(d, admin_id) = None
    THEN Raised("AdministratorNotFoundException")
    ELSE Returned(get_administrator(d, admin_id))

\* login_path without the account_locked test.
login_path_no_lock_check(admin, password) ==
    IF admin.password_hash = hash_password(password, admin.salt) THEN "reset"
    ELSE "increment"

\* The branch verify_login_credentials takes for the row it read: "locked" (no
\* update), "reset" (the password matches) or "increment" (it does not).
login_path(admin, password) ==
    IF admin.account_locked THEN "locked"
    ELSE IF verify_password(admin.password_hash, password, admin.salt) THEN "reset"
    ELSE "increment"

\* verify_login_credentials(username, password).
VerifyLogin(username, password) ==
    /\ \A q \in DOMAIN proc : proc[q].pc = "idle"
    /\ LET resolved == _get_admin_by_username(db, username)
           admin == resolved.value
           path == login_path(admin[1], password)
           update_data == increment_update_data(_get_admin_by_id(db, admin[1].id).value[1],
                              now, PASSWORD_RETRIES_TIME_WINDOW_MINUTES,
                              MAX_PASSWORD_RETRIES)
       IN  IF resolved.kind = "raise"
           THEN /\ lastCall' = Call("verify_login_credentials", username, password, None,
                                    resolved, <<>>)
                /\ db' = db
           ELSE IF admin = None
           THEN /\ lastCall' = Call("verify_login_credentials", username, password, None,
                                    Returned(None), <<>>)
                /\ db' = db
           ELSE IF path = "locked"
           THEN /\ lastCall' = Call("verify_login_credentials", username, password, admin,
                                    Returned(None), <<>>)
                /\ db' = db
           ELSE IF path = "reset"
           THEN /\ db' = reset_login_failure_counters(db, admin[1].id)
                /\ lastCall' = Call("verify_login_credentials", username, password, admin,
                                    Returned(admin), <<reset_update_data>>)
           ELSE /\ db' = increment_login_failure_counter(db, admin[1].id, now,
                             PASSWORD_RETRIES_TIME_WINDOW_MINUTES, MAX_PASSWORD_RETRIES)
                /\ lastCall' = Call("verify_login_credentials", username, password, admin,
                                    Returned(None), <<update_data>>)
    /\ UNCHANGED <<MAX_PASSWORD_RETRIES, PASSWORD_RETRIES_TIME_WINDOW_MINUTES, now, proc>>
    /\ UNCHANGED <<eligVars, cred>>

\* A call that first checks that the administrator exists (_get_admin_by_id)
\* and then issues one update.
checked_update(op, admin_id, update_data) ==
    LET resolved == _get_admin_by_id(db, admin_id)
        admin == resolved.value
    IN  IF resolved.kind = "raise"
        THEN /\ lastCall' = Call(op, "", "", None, resolved, <<>>)
                                @@ [admin_id |-> admin_id]
             /\ db' = db
        ELSE /\ db' = update_administrator(db, admin_id, update_data)
             /\ lastCall' = Call(op, admin[1].username, "", admin, Returned(None),
                                 <<update_data>>) @@ [admin_id |-> admin_id]

\* unlock_administrator_account(admin_id).
UnlockAccount(admin_id) ==
    /\ \A q \in DOMAIN proc : proc[q].pc = "idle"
    /\ checked_update("unlock_administrator_account", admin_id, unlock_update_data)
    /\ UNCHANGED <<MAX_PASSWORD_RETRIES, PASSWORD_RETRIES_TIME_WINDOW_MINUTES, now, proc>>
    /\ UNCHANGED <<eligVars, cred>>

\* lock_administrator_account(admin_id).
LockAccount(admin_id) ==
    /\ \A q \in DOMAIN proc : proc[q].pc = "idle"
    /\ checked_update("lock_administrator_account", admin_id, lock_update_data)
    /\ UNCHANGED <<MAX_PASSWORD_RETRIES, PASSWORD_RETRIES_TIME_WINDOW_MINUTES, now, proc>>
    /\ UNCHANGED <<eligVars, cred>>

\* A minute passes.
Tick ==
    /\ now < MaxTime
    /\ now' = now + 1
    /\ UNCHANGED <<MAX_PASSWORD_RETRIES, PASSWORD_RETRIES_TIME_WINDOW_MINUTES, db,
                   lastCall, proc>>
    /\ UNCHANGED <<eligVars, cred>>

----------------------------------------------------------------------------
(* The service behind one request at a time *)

\* No hash_password call yet.
NoCred == [password |-> "", salt |-> "", digest |-> None, candidate |-> "",
           candidate_salt |-> "", verified |-> None]

EligIdle ==
    /\ cred = NoCred
    /\ strategy = <<>>
    /\ applicant = None
    /\ calls = <<>>
    /\ benefits = <<>>

Init ==
    /\ MAX_PASSWORD_RETRIES \in 1..MaxRetries
    /\ PASSWORD_RETRIES_TIME_WINDOW_MINUTES \in 1..MaxWindow
    /\ db = [i \in AdminIds |-> None]
    /\ now = 0
    /\ lastCall = NoCall
    /\ proc = <<>>
    /\ EligIdle

Next ==
    \/ \E admin_data \in AdminData, salt \in Salts : CreateAdministrator(admin_data, salt)
    \/ \E username \in LoginNames, password \in Passwords : VerifyLogin(username, password)
    \/ \E admin_id \in LookupIds : UnlockAccount(admin_id)
    \/ \E admin_id \in LookupIds : LockAccount(admin_id)
    \/ Tick

Spec == Init /\ [][Next]_vars

----------------------------------------------------------------------------
(* Two requests at once: verify_login_credentials step by step.  Each request
   has its own database session (api/__init__.py, create_session); a step is
   one call of the persistence collaborator with the computation that follows
   it.  Calls that ran to completion set the scene before the first request
   starts; the clock and lock_administrator_account go on during them (the
   other calls, which reset the counter, do not).
   Requests are numbered in the order they arrive, and lastCall, which
   describes a call that ran alone, is cleared when a request starts. *)

Procs == {1, 2}

\* Line 106 to 108: resolve the administrator and choose the branch.
ProcStart(p, username, password) ==
    /\ proc[p].pc = "idle"
    /\ \A q \in Procs : q < p => proc[q].pc # "idle"
    /\ LET resolved == _get_admin_by_username(db, username)
           admin == resolved.value
           path == login_path(admin[1], password)
           started == [proc[p] EXCEPT !.username = username, !.password = password,
                                      !.admin = admin]
       IN  proc' = [proc EXCEPT ![p] =
               IF resolved.kind = "raise"
               THEN [started EXCEPT !.pc = "done", !.result = resolved]
               ELSE IF admin = None \/ path = "locked" THEN [started EXCEPT !.pc = "done"]
               ELSE [started EXCEPT !.pc = path]]
    /\ lastCall' = NoCall
    /\ UNCHANGED <<MAX_PASSWORD_RETRIES, PASSWORD_RETRIES_TIME_WINDOW_MINUTES, db, now>>
    /\ UNCHANGED <<eligVars, cred>>

\* Line 110 and 111: reset_login_failure_counters, return admin.
ProcReset(p) ==
    /\ proc[p].pc = "reset"
    /\ db' = reset_login_failure_counters(db, proc[p].admin[1].id)
    /\ proc' = [proc EXCEPT ![p].pc = "done", ![p].result = Returned(proc[p].admin)]
    /\ UNCHANGED <<MAX_PASSWORD_RETRIES, PASSWORD_RETRIES_TIME_WINDOW_MINUTES, now,
                   lastCall>>
    /\ UNCHANGED <<eligVars, cred>>

\* Line 122 to 151: read the row again, read the clock, build update_data.
ProcIncrementRead(p) ==
    /\ proc[p].pc = "increment"
    /\ LET admin == get_administrator(db, proc[p].admin[1].id)
       IN  proc' = [proc EXCEPT ![p].pc = "update", ![p].read = admin,
                       ![p].update_data =
                           <<increment_update_data(admin[1], now,
                                 PASSWORD_RETRIES_TIME_WINDOW_MINUTES,
                                 MAX_PASSWORD_RETRIES)>>]
    /\ UNCHANGED <<MAX_PASSWORD_RETRIES, PASSWORD_RETRIES_TIME_WINDOW_MINUTES, db, now,
                   lastCall>>
    /\ UNCHANGED <<eligVars, cred>>

\* Line 153 and 115: write update_data, return None.
ProcIncrementWrite(p) ==
    /\ proc[p].pc = "update"
    /\ db' = update_administrator(db, proc[p].admin[1].id, proc[p].update_data[1])
    /\ proc' = [proc EXCEPT ![p].pc = "done"]
    /\ UNCHANGED <<MAX_PASSWORD_RETRIES, PASSWORD_RETRIES_TIME_WINDOW_MINUTES, now,
                   lastCall>>
    /\ UNCHANGED <<eligVars, cred>>

\* lock_administrator_account(admin_id) from another request, while requests
\* are in flight.
ConcurrentLock(admin_id) ==
    /\ \E q \in Procs : proc[q].pc # "idle"
    /\ get_administrator(db, admin_id) # None
    /\ db' = update_administrator(db, admin_id, lock_update_data)
    /\ UNCHANGED <<MAX_PASSWORD_RETRIES, PASSWORD_RETRIES_TIME_WINDOW_MINUTES, now,
                   lastCall, proc>>
    /\ UNCHANGED <<eligVars, cred>>

InitConc ==
    /\ MAX_PASSWORD_RETRIES \in 1..MaxRetries
    /\ PASSWORD_RETRIES_TIME_WINDOW_MINUTES \in 1..MaxWindow
    /\ db = [i \in AdminIds |-> None]
    /\ now = 0
    /\ lastCall = NoCall
    /\ proc = [p \in Procs |-> Idle]
    /\ EligIdle

NextConc ==
    \/ \E admin_data \in AdminData, salt \in Salts : CreateAdministrator(admin_data, salt)
    \/ \E username \in LoginNames, password \in Passwords : VerifyLogin(username, password)
    \/ \E admin_id \in LookupIds : UnlockAccount(admin_id)
    \/ \E admin_id \in LookupIds : LockAccount(admin_id)
    \/ Tick
    \/ \E p \in Procs, username \in LoginNames, password \in Passwords :
          ProcStart(p, username, password)
    \/ \E p \in Procs : ProcReset(p)
    \/ \E p \in Procs : ProcIncrementRead(p)
    \/ \E p \in Procs : ProcIncrementWrite(p)
    \/ \E admin_id \in LookupIds : ConcurrentLock(admin_id)

SpecConc == InitConc /\ [][NextConc]_vars

----------------------------------------------------------------------------
(* SchemeEligibilityChecker *)

\* The defaults of the two environment settings.
DEFAULT_MAX_PASSWORD_RETRIES == 5
DEFAULT_PASSWORD_RETRIES_TIME_WINDOW_MINUTES == 10

Applicants == {[name |-> "low", income |-> 1500], [name |-> "mid", income |-> 2000],
               [name |-> "high", income |-> 2500]}

BenefitLists == {<<>>, <<[benefit_name |-> "voucher", amount |-> 100]>>}

\* The BaseEligibility strategies: for each applicant, what check_eligibility
\* answers and what calculate_benefits would produce if it were called.
Strategies ==
    [Applicants -> [is_eligible : BOOLEAN, message : {"income"}, benefits : BenefitLists]]

\* BaseEligibility.check_eligibility(applicant).
check_eligibility(st, a) == <<st[a].is_eligible, st[a].message>>

\* BaseEligibility.calculate_benefits(applicant).
calculate_benefits(st, a) == st[a].benefits

\* _check_eligibility(applicant): the strategy methods it invokes and its value.
_check_eligibility(st, a) ==
    [invoked |-> <<"check_eligibility">>, value |-> check_eligibility(st, a)]

\* _calculate_benefits calling calculate_benefits whatever the verdict.
_calculate_benefits_unconditional(st, a) ==
    LET checked == _check_eligibility(st, a)
    IN  [invoked |-> checked.invoked \o <<"calculate_benefits">>,
         value |-> calculate_benefits(st, a)]

\* _calculate_benefits(applicant): the strategy methods it invokes and its value.
_calculate_benefits(st, a) ==
    LET checked == _check_eligibility(st, a)
    IN  IF checked.value[1]
        THEN [invoked |-> checked.invoked \o <<"calculate_benefits">>,
              value |-> calculate_benefits(st, a)]
        ELSE [invoked |-> checked.invoked, value |-> <<>>]

\* A caller runs _calculate_benefits(a).
CalculateBenefits(a) ==
    /\ applicant' = <<a>>
    /\ calls' = _calculate_benefits(strategy, a).invoked
    /\ benefits' = _calculate_benefits(strategy, a).value
    /\ UNCHANGED strategy
    /\ UNCHANGED <<adminVars, cred>>

InitElig ==
    /\ MAX_PASSWORD_RETRIES = DEFAULT_MAX_PASSWORD_RETRIES
    /\ PASSWORD_RETRIES_TIME_WINDOW_MINUTES = DEFAULT_PASSWORD_RETRIES_TIME_WINDOW_MINUTES
    /\ db = [i \in AdminIds |-> None]
    /\ now = 0
    /\ lastCall = NoCall
    /\ proc = <<>>
    /\ strategy \in Strategies
    /\ cred = NoCred
    /\ applicant = None
    /\ calls = <<>>
    /\ benefits = <<>>

NextElig == \E a \in Applicants : CalculateBenefits(a)

SpecElig == InitElig /\ [][NextElig]_vars

----------------------------------------------------------------------------
(* hash_password and verify_password on their own *)

\* The passwords and salts the two functions are applied to.
HashPasswords == Passwords \cup {"", "Secret1234", "5a:guess"}
HashSalts == Salts \cup {"c3", "0f"}

\* hash_password(password, salt).
HashPassword(password, salt) ==
    /\ cred' = [NoCred EXCEPT !.password = password, !.salt = salt,
                              !.digest = <<hash_password(password, salt)>>]
    /\ UNCHANGED <<adminVars, eligVars>>

\* verify_password(stored_password_hash, provided_password, salt) on the digest
\* the last hash_password call produced.
VerifyPassword(provided_password, salt) ==
    /\ cred.digest # None
    /\ cred' = [cred EXCEPT !.candidate = provided_password, !.candidate_salt = salt,
                            !.verified = <<verify_password(cred.digest[1],
                                                           provided_password, salt)>>]
    /\ UNCHANGED <<adminVars, eligVars>>

InitHash ==
    /\ MAX_PASSWORD_RETRIES = DEFAULT_MAX_PASSWORD_RETRIES
    /\ PASSWORD_RETRIES_TIME_WINDOW_MINUTES = DEFAULT_PASSWORD_RETRIES_TIME_WINDOW_MINUTES
    /\ db = [i \in AdminIds |-> None]
    /\ now = 0
    /\ lastCall = NoCall
    /\ proc = <<>>
    /\ EligIdle

NextHash ==
    \/ \E password \in HashPasswords, salt \in HashSalts : HashPassword(password, salt)
    \/ \E password \in HashPasswords, salt \in HashSalts : VerifyPassword(password, salt)

SpecHash == InitHash /\ [][NextHash]_vars

----------------------------------------------------------------------------
(* Reading the last call *)

IsLogin == lastCall.op = "verify_login_credentials"

\* The last call was a login that found its administrator.
LoginFound == IsLogin /\ lastCall.pre # None

\* The last call was a wrong-password login on an unlocked account: the one
\* that runs increment_login_failure_counter.
FailedLogin ==
    /\ LoginFound
    /\ ~lastCall.pre[1].account_locked
    /\ lastCall.pre[1].password_hash
           # hash_password(lastCall.password, lastCall.pre[1].salt)

\* The last call was a correct-password login on an unlocked account: the one
\* that runs reset_login_failure_counters.
SucceededLogin ==
    /\ LoginFound
    /\ ~lastCall.pre[1].account_locked
    /\ lastCall.pre[1].password_hash
           = hash_password(lastCall.password, lastCall.pre[1].salt)

\* The row of the last call's administrator, as the call left it.
RowNow == db[lastCall.pre[1].id][1]

\* Minutes between the start of the retry window the last call found and the call.
Elapsed == lastCall.at - lastCall.pre[1].failed_login_starttime[1]

----------------------------------------------------------------------------
(* Claims *)

\* C1: lockout boundary. A failed login that brings the run of failures inside
\* the window to MAX_PASSWORD_RETRIES leaves the account locked, and one that
\* brings it to MAX_PASSWORD_RETRIES - 1 leaves it unlocked, for every
\* MAX_PASSWORD_RETRIES >= 1. (From a fresh administrator the k-th failure
\* inside the window leaves the counter at k.)
C1_LockoutBoundary ==
    FailedLogin =>
        /\ RowNow.consecutive_failed_logins = MAX_PASSWORD_RETRIES
              => RowNow.account_locked
        /\ RowNow.consecutive_failed_logins = MAX_PASSWORD_RETRIES - 1
              => ~RowNow.account_locked

\* C2: a login on a locked account returns None whatever the password, issues
\* no update and leaves the row as it was.
C2_LockedShortCircuit ==
    (LoginFound /\ lastCall.pre[1].account_locked) =>
        /\ lastCall.result = Returned(None)
        /\ lastCall.updates = <<>>
        /\ RowNow = lastCall.pre[1]

\* C2 witness: a correct-password login on a locked account, with failures counted.
C2_Witness ==
    /\ LoginFound
    /\ lastCall.pre[1].account_locked
    /\ lastCall.pre[1].consecutive_failed_logins > 0
    /\ lastCall.pre[1].password_hash
           = hash_password(lastCall.password, lastCall.pre[1].salt)

\* C4: a failed login's update sets account_locked exactly when the counter
\* that same update writes is >= MAX_PASSWORD_RETRIES.
C4_LockOnPostUpdateCounter ==
    FailedLogin =>
        /\ Len(lastCall.updates) = 1
        /\ ("account_locked" \in DOMAIN lastCall.updates[1]
               <=> lastCall.updates[1].consecutive_failed_logins >= MAX_PASSWORD_RETRIES)
        /\ RowNow.account_locked
               <=> RowNow.consecutive_failed_logins >= MAX_PASSWORD_RETRIES

\* An update resets the counter exactly when it clears the start time.
ResetsTogether(u) ==
    ("consecutive_failed_logins" \in DOMAIN u /\ u.consecutive_failed_logins = 0)
        <=> ("failed_login_starttime" \in DOMAIN u /\ u.failed_login_starttime = None)

\* C5: in every state the calls reach, a positive counter has a start time,
\* and every update that resets one of the two resets the other.
C5_CounterStartTimeInvariant ==
    /\ \A i \in DOMAIN db :
          (db[i] # None /\ db[i][1].consecutive_failed_logins > 0)
              => db[i][1].failed_login_starttime # None
    /\ \A k \in DOMAIN lastCall.updates : ResetsTogether(lastCall.updates[k])

\* C5 witness: a login has just reset a positive counter and its start time.
C5_Witness ==
    /\ SucceededLogin
    /\ lastCall.pre[1].consecutive_failed_logins > 0
    /\ RowNow.consecutive_failed_logins = 0
    /\ RowNow.failed_login_starttime = None

\* C6: a failed login that finds a start time starts a fresh window (counter 1,
\* start time now) exactly when more than the window has elapsed since it, and
\* otherwise adds 1 to the counter.
C6_WindowExpiry ==
    (FailedLogin /\ lastCall.pre[1].failed_login_starttime # None) =>
        IF Elapsed > PASSWORD_RETRIES_TIME_WINDOW_MINUTES
        THEN /\ RowNow.consecutive_failed_logins = 1
             /\ RowNow.failed_login_starttime = <<lastCall.at>>
        ELSE /\ RowNow.consecutive_failed_logins
                    = lastCall.pre[1].consecutive_failed_logins + 1
             /\ ~(/\ RowNow.consecutive_failed_logins = 1
                  /\ RowNow.failed_login_starttime = <<lastCall.at>>)

\* C6 witness: a failure one minute after the window ended discarded a count of 2 or more.
C6_Witness ==
    /\ FailedLogin
    /\ lastCall.pre[1].failed_login_starttime # None
    /\ Elapsed = PASSWORD_RETRIES_TIME_WINDOW_MINUTES + 1
    /\ lastCall.pre[1].consecutive_failed_logins >= 2
    /\ RowNow.consecutive_failed_logins = 1

\* C8: a successful login issues one update, of the counter to 0 and the start
\* time to None and of nothing else; the reset leaves account_locked of any row
\* as it is, and applied again it changes nothing.
C8_OnSuccess ==
    /\ SucceededLogin =>
          /\ Len(lastCall.updates) = 1
          /\ DOMAIN lastCall.updates[1]
                 = {"consecutive_failed_logins", "failed_login_starttime"}
          /\ RowNow = [lastCall.pre[1] EXCEPT !.consecutive_failed_logins = 0,
                                              !.failed_login_starttime = None]
          /\ reset_login_failure_counters(db, RowNow.id) = db
    /\ \A i \in DOMAIN db : db[i] # None =>
          LET once == reset_login_failure_counters(db, i)
          IN  /\ once[i][1].account_locked = db[i][1].account_locked
              /\ once[i][1].consecutive_failed_logins = 0
              /\ once[i][1].failed_login_starttime = None
              /\ reset_login_failure_counters(once, i) = once

\* C8 witness: a successful login has reset a counter that stood above 0.
C8_Witness ==
    /\ SucceededLogin
    /\ lastCall.pre[1].consecutive_failed_logins > 0
    /\ lastCall.result.value = lastCall.pre

\* C10: a login returns an administrator only if the row it read was unlocked
\* and held the hash of the supplied password under the row's salt; a call
\* that raises returns nothing.
C10_LoginOnlyOnMatch ==
    IsLogin =>
        /\ lastCall.result.value # None =>
              /\ lastCall.result.kind = "return"
              /\ lastCall.pre # None
              /\ ~lastCall.pre[1].account_locked
              /\ lastCall.pre[1].password_hash
                     = hash_password(lastCall.password, lastCall.pre[1].salt)
              /\ lastCall.result.value = lastCall.pre
        /\ lastCall.pre = None =>
              lastCall.result = Raised("AdministratorNotFoundException")

\* C10 witness: a login has returned the administrator.
C10_Witness ==
    /\ IsLogin
    /\ lastCall.result.value # None
    /\ lastCall.result.value[1].username = lastCall.username

\* C9: while an account is locked a correct-password login returns None and
\* only unlock_administrator_account clears the lock; unlock writes
\* account_locked = FALSE, the counter 0 and the start time None in one update;
\* and the first call after it, if a correct-password login, returns the
\* administrator.
C9_LockThenUnlock ==
    [][\A i \in DOMAIN db : (db[i] # None /\ lastCall' # lastCall) =>
          LET row == db[i][1]
              correct == /\ lastCall'.op = "verify_login_credentials"
                         /\ lastCall'.username = row.username
                         /\ row.password_hash = hash_password(lastCall'.password, row.salt)
          IN  /\ (row.account_locked /\ correct) =>
                    /\ lastCall'.result = Returned(None)
                    /\ db'[i][1].account_locked
              /\ (row.account_locked /\ ~db'[i][1].account_locked) =>
                    lastCall'.op = "unlock_administrator_account"
              /\ (lastCall'.op = "unlock_administrator_account" /\ lastCall'.pre = db[i]) =>
                    /\ Len(lastCall'.updates) = 1
                    /\ db'[i][1] = [row EXCEPT !.account_locked = FALSE,
                                               !.consecutive_failed_logins = 0,
                                               !.failed_login_starttime = None]
              /\ (/\ lastCall.op = "unlock_administrator_account"
                  /\ lastCall.pre # None
                  /\ lastCall.pre[1].id = i
                  /\ correct) =>
                    /\ lastCall'.result.kind = "return"
                    /\ lastCall'.result.value # None
                    /\ lastCall'.result.value[1].id = i]_vars

\* C9 witness: unlock has just cleared a lock that MAX_PASSWORD_RETRIES failed
\* logins had set.
C9_Witness ==
    /\ lastCall.op = "unlock_administrator_account"
    /\ lastCall.pre # None
    /\ lastCall.pre[1].account_locked
    /\ MAX_PASSWORD_RETRIES >= 2
    /\ lastCall.pre[1].consecutive_failed_logins = MAX_PASSWORD_RETRIES
    /\ ~RowNow.account_locked
    /\ RowNow.consecutive_failed_logins = 0

\* C3: _calculate_benefits invokes the strategy's calculate_benefits exactly
\* when its check_eligibility answered eligible for the applicant, after that
\* check and once; it returns the empty list when the answer was ineligible
\* and what calculate_benefits produced when it was eligible.
C3_EvaluationShortCircuit ==
    applicant # None =>
        LET a == applicant[1]
            calculated == {k \in DOMAIN calls : calls[k] = "calculate_benefits"}
        IN  /\ calls[1] = "check_eligibility"
            /\ (calculated # {}) <=> strategy[a].is_eligible
            /\ calculated \subseteq {2}
            /\ ~strategy[a].is_eligible => benefits = <<>>
            /\ strategy[a].is_eligible => benefits = strategy[a].benefits

\* C3 witness: an ineligible applicant, for whom calculate_benefits would have
\* produced a benefit, got the empty list and calculate_benefits was not invoked.
C3_Witness ==
    /\ applicant # None
    /\ ~strategy[applicant[1]].is_eligible
    /\ strategy[applicant[1]].benefits # <<>>
    /\ calls = <<"check_eligibility">>
    /\ benefits = <<>>

\* The request took the within-window branch of increment_login_failure_counter
\* and has written its update.
IncrementedInWindow(p) ==
    /\ proc[p].pc = "done"
    /\ proc[p].update_data # None
    /\ "failed_login_starttime" \notin DOMAIN proc[p].update_data[1]

\* C7: no lost update. When two wrong-password logins on one administrator
\* have both incremented the counter inside the window, the counter is 2 above
\* the value the first of them read.
C7_NoLostUpdate ==
    \A p, q \in Procs :
        (/\ p < q
         /\ IncrementedInWindow(p)
         /\ IncrementedInWindow(q)
         /\ proc[p].admin[1].id = proc[q].admin[1].id) =>
            LET c1 == proc[p].read[1].consecutive_failed_logins
                c2 == proc[q].read[1].consecutive_failed_logins
            IN  db[proc[p].admin[1].id][1].consecutive_failed_logins
                    = (IF c1 < c2 THEN c1 ELSE c2) + 2

\* C11: password round trip. verify_password on the digest of (p, s), with the
\* same salt s, answers true for p and false for every other password.
C11_PasswordRoundTrip ==
    (cred.verified # None /\ cred.candidate_salt = cred.salt) =>
        (cred.verified[1] <=> cred.candidate = cred.password)

\* C11 witness: the digest of a password has been verified against that password.
C11_Witness ==
    /\ cred.verified = <<TRUE>>
    /\ cred.candidate_salt = cred.salt
    /\ cred.candidate = cred.password
    /\ cred.password = "Secret123"

\* The dict lacks a credential or holds an empty one.
InvalidCredentials(admin_data) ==
    \E f \in {"username", "password_hash"} :
        f \notin DOMAIN admin_data \/ admin_data[f] = ""

\* C12: create_administrator on invalid credentials (a field missing or empty)
\* raises InvalidAdministratorDataException and makes no call on the
\* persistence collaborator; when it returns, the one create_administrator call
\* it made passed the hash of the raw password under the salt it drew, and that
\* hash, not the raw password, is the row's password_hash.
C12_CreateValidatesFirst ==
    lastCall.op = "create_administrator" =>
        /\ InvalidCredentials(lastCall.admin_data) =>
              /\ lastCall.result = Raised("InvalidAdministratorDataException")
              /\ lastCall.persisted = <<>>
        /\ lastCall.result.kind = "return" =>
              LET raw == lastCall.admin_data["password_hash"]
                  digest == "sha256(" \o lastCall.salt \o ":" \o raw \o ")"
              IN  /\ lastCall.persisted
                         = <<<<lastCall.admin_data["username"], digest, lastCall.salt>>>>
                  /\ lastCall.result.value[1].password_hash = digest
                  /\ lastCall.result.value[1].salt = lastCall.salt
                  /\ digest # raw

\* C13: a login with a username that resolves to no administrator raises
\* AdministratorNotFoundException (it does not return None), issues no update
\* and leaves every row as it was.
C13_UnknownUsernameRaises ==
    [][(/\ lastCall' # lastCall
        /\ lastCall'.op = "verify_login_credentials"
        /\ get_administrator_by_username(db, lastCall'.username) = None) =>
            /\ lastCall'.result = Raised("AdministratorNotFoundException")
            /\ lastCall'.updates = <<>>
            /\ db' = db]_vars

\* C13 witness: such a login has raised while a row with failures counted exists.
C13_Witness ==
    /\ IsLogin
    /\ lastCall.username = "mallory"
    /\ lastCall.result = Raised("AdministratorNotFoundException")
    /\ \E i \in DOMAIN db : db[i] # None /\ db[i][1].consecutive_failed_logins > 0

\* C14: a failed login inside an active window (a start time is set and no
\* more than the window has elapsed) adds exactly 1 to the counter and leaves
\* the start time as it was: its update does not name it.
C14_WindowAnchored ==
    (/\ FailedLogin
     /\ lastCall.pre[1].failed_login_starttime # None
     /\ Elapsed <= PASSWORD_RETRIES_TIME_WINDOW_MINUTES) =>
        /\ RowNow.consecutive_failed_logins
               = lastCall.pre[1].consecutive_failed_logins + 1
        /\ RowNow.failed_login_starttime = lastCall.pre[1].failed_login_starttime
        /\ "failed_login_starttime" \notin DOMAIN lastCall.updates[1]

\* C14 witness: a failure in the last minute of the window was counted and the
\* window still starts at the first failure.
C14_Witness ==
    /\ FailedLogin
    /\ lastCall.pre[1].failed_login_starttime # None
    /\ Elapsed = PASSWORD_RETRIES_TIME_WINDOW_MINUTES
    /\ RowNow.consecutive_failed_logins = 2
    /\ RowNow.failed_login_starttime # <<lastCall.at>>

\* C15: lock_administrator_account on an existing administrator sets
\* account_locked and changes nothing else of the row, whatever the counter and
\* the start time; lock and unlock on an id with no administrator raise
\* AdministratorNotFoundException, issue no update and leave the table as it was.
C15_LockFrame ==
    [][(/\ lastCall' # lastCall
        /\ lastCall'.op \in {"lock_administrator_account",
                             "unlock_administrator_account"}) =>
            LET admin_id == lastCall'.admin_id
            IN  IF get_administrator(db, admin_id) = None
                THEN /\ lastCall'.result = Raised("AdministratorNotFoundException")
                     /\ lastCall'.updates = <<>>
                     /\ db' = db
                ELSE lastCall'.op = "lock_administrator_account" =>
                        /\ lastCall'.result = Returned(None)
                        /\ db' = [db EXCEPT ![admin_id] =
                                     <<[db[admin_id][1] EXCEPT !.account_locked = TRUE]>>]]_vars

\* C15 witness: lock has locked an unlocked account with failures counted, and
\* the counter and the start time are as before.
C15_Witness ==
    /\ lastCall.op = "lock_administrator_account"
    /\ lastCall.pre # None
    /\ ~lastCall.pre[1].account_locked
    /\ lastCall.pre[1].consecutive_failed_logins > 0
    /\ RowNow = [lastCall.pre[1] EXCEPT !.account_locked = TRUE]

\* C16: the lock is sticky. With logins run alone or interleaved, with the
\* right or a wrong password, and written before or after a login read the
\* row, account_locked once true is false again only by a step of
\* unlock_administrator_account.
C16_LockSticky ==
    [][\A i \in DOMAIN db :
          (/\ db[i] # None
           /\ db[i][1].account_locked
           /\ ~db'[i][1].account_locked) =>
              /\ lastCall' # lastCall
              /\ lastCall'.op = "unlock_administrator_account"]_vars

\* C16 witness: a wrong-password login read the row unlocked at line 106, the
\* lock was written, the login read the row locked at line 122 and has written
\* its update; the account is locked.
C16_Witness ==
    \E p \in DOMAIN proc :
        /\ proc[p].pc = "done"
        /\ proc[p].update_data # None
        /\ "account_locked" \notin DOMAIN proc[p].update_data[1]
        /\ ~proc[p].admin[1].account_locked
        /\ proc[p].read[1].account_locked
        /\ db[proc[p].admin[1].id][1].account_locked

\* The request took the correct-password branch and has written its reset.
ResetWritten(q) ==
    /\ proc[q].pc = "done"
    /\ proc[q].result.value # None

\* The request took the wrong-password branch and has written its update.
IncrementWritten(p) ==
    /\ proc[p].pc = "done"
    /\ proc[p].update_data # None

\* C17: when a wrong-password login and a correct-password login on one
\* unlocked administrator have both written their updates, however their
\* steps interleaved, the row's counter is positive only if its start time is set.
C17_InterleavedInvariant ==
    \A p, q \in DOMAIN proc :
        (/\ IncrementWritten(p)
         /\ ResetWritten(q)
         /\ proc[p].admin[1].id = proc[q].admin[1].id) =>
            LET row == db[proc[p].admin[1].id][1]
            IN  row.consecutive_failed_logins > 0 => row.failed_login_starttime # None

\* C18: with calls run one at a time the counter stays within
\* 0..MAX_PASSWORD_RETRIES, for every MAX_PASSWORD_RETRIES >= 1.
C18_BoundedCounter ==
    \A i \in DOMAIN db : db[i] # None =>
        /\ db[i][1].consecutive_failed_logins >= 0
        /\ db[i][1].consecutive_failed_logins <= MAX_PASSWORD_RETRIES

====
